---- MODULE Spec2Model ----
(***************************************************************************)
(* Model of the pyocomm communicator layer.                                *)
(*                                                                         *)
(* Part 1: OBARE, the single-process communicator                          *)
(* (src/src/pyocomm/obare/obare.py).  One OBARE instance is driven by one  *)
(* caller that owns a few fixed-shape one-dimensional arrays.  Every       *)
(* method of OBARE is one action; the action records the call and its      *)
(* outcome (normal return or the exception raised) in `last`.              *)
(***************************************************************************)
EXTENDS Integers, Sequences, FiniteSets, TLC

\* ------------------------------------------------------------------------
\* Inputs the caller draws its arguments from
\* ------------------------------------------------------------------------

\* Bound on the number of payloads pending in the communicator (all tags).
MaxPending == 2

\* The contents the caller puts into its arrays.
Samples == {<<1>>, <<9>>, <<1, 1>>, <<9, 9>>}

\* Message tags used by the caller.
Tags == {0, 5}

\* Peer ranks (dest, source, root) and split colours / keys the caller passes.
Ranks == {0, 1}

\* Reduction operator strings the caller passes.
Ops == {"sum", "max", "min", "prod"}

\* The caller's arrays (references) and their fixed shapes.
Bufs == {"x", "y", "z"}

BufLen(b) == IF b = "z" THEN 2 ELSE 1

\* The (send_data, recv_data) pairs the caller passes to a collective: two
\* arrays of one shape, two of different shapes either way round, and one
\* array passed as both.
BufPairs == {<<"x", "y">>, <<"x", "z">>, <<"z", "x">>, <<"y", "y">>}

\* ------------------------------------------------------------------------
\* Exceptions (type and message of each raise site)
\* ------------------------------------------------------------------------
Ok == "ok"

ErrDest == "ValueError: Destination rank must be the same as the source rank."

ErrSource == "ValueError: Source rank must be the same as the source rank."

ErrNoData == "ValueError: No data to receive."

ErrPopEmpty == "IndexError: pop from empty list"

ErrBroadcast == "ValueError: could not broadcast input array"

ErrRoot == "ValueError: Root rank must be the same as the source rank."

ErrShape == "ValueError: Send and receive data shapes must match."

ErrOp == "ValueError: Invalid reduction operation."

ErrColor == "ValueError: Color must be 0."

ErrNoCopy == "AttributeError: 'OBARE' object has no attribute 'copy'"

\* ------------------------------------------------------------------------
\* State
\* ------------------------------------------------------------------------
VARIABLES
    heap,       \* the caller's arrays: reference -> content
    send_buff,  \* OBARE.send_buff: dict tag -> list of pending payloads
    sent,       \* monitor: per tag, the value data had at each successful send
                \* that no successful recv has delivered yet, oldest first
    last,       \* the call that has just returned or raised (op "idle": none)
    pre,        \* heap and send_buff as they were when that call was made
    flags,      \* part 2: pyocomm.backend_flags / the pyompi *_AVAILABLE flags
    mem,        \* part 2: participant -> array reference -> content
    run         \* part 2: the collective call that has just ended on every
                \* participant, with what each participant saw

vars == <<heap, send_buff, sent, last, pre, flags, mem, run>>

\* The state of part 2 (the transport-backed communicators).
world == <<flags, mem, run>>

\* numpy shape of a one-dimensional array
\* Faulty variant: the number of dimensions is compared, not the shape.
ShapeNdim(a) == <<1>>

Shape(a) == <<Len(a)>>

\* OBARE.size() and OBARE.rank()
size == 1

\* Faulty variant: rank() returning the communicator's size.
RankIsSize == size

rank == 0

\* An array object held by the communicator: either an array of its own
\* (ref = "none", content val) or one of the caller's arrays (ref).
\* data.copy() makes a fresh array nobody else references.
\* Faulty variant: the caller's array itself is kept, not a copy.
ArrayAlias(h, d) == [ref |-> d, val |-> h[d]]

ArrayCopy(h, d) == [ref |-> "none", val |-> h[d]]

\* The content an array object has now.
Deref(h, p) == IF p.ref = "none" THEN p.val ELSE h[p.ref]

\* numpy's dst[:] = src for one-dimensional arrays: same length copies,
\* a length-1 source is broadcast, anything else raises.
CanAssign(dst, src) == Len(src) = Len(dst) \/ Len(src) = 1

SliceAssign(dst, src) ==
    IF Len(src) = Len(dst) THEN src ELSE [i \in 1..Len(dst) |-> src[1]]

\* Number of entries over all tags of a tag -> list map.
RECURSIVE Pending(_, _)
Pending(sb, ts) ==
    IF ts = {} THEN 0
    ELSE LET t == CHOOSE u \in ts : TRUE
         IN Len(sb[t]) + Pending(sb, ts \ {t})

\* A communicator returned by split or dup (made = FALSE: none was).
NoComm == [made |-> FALSE, send_buff |-> << >>]

\* The record of a call: method, outcome, the arguments it was given
\* (a: data / send_data, b: buf / recv_data, peer: dest / source / root /
\* color, tag: tag / key, rop: op), the reference it returned, and for a
\* recv that dequeued a payload: the value data had in the send that
\* enqueued it (orig) and the value of the oldest successful send on the tag
\* that no successful recv had delivered yet (want); for split and dup the
\* communicator returned (comm).
NoArgs == [op |-> "idle", err |-> Ok, a |-> "none", b |-> "none",
           peer |-> -1, tag |-> -1, rop |-> "none", ret |-> "none",
           orig |-> << >>, want |-> << >>, comm |-> NoComm]

Call(op, err, args) == [f \in DOMAIN NoArgs |->
    IF f = "op" THEN op ELSE IF f = "err" THEN err
    ELSE IF f \in DOMAIN args THEN args[f] ELSE NoArgs[f]]

Snapshot == [heap |-> heap, send_buff |-> send_buff]

\* ------------------------------------------------------------------------
\* Part 2, inputs: the environment, the participants and their arrays
\* ------------------------------------------------------------------------

\* What the process environment offers: cupy importable and working, nccl
\* present in cupy, mpi4py importable, and an MPI library that can read and
\* write device memory.
Envs == [cupy : BOOLEAN, nccl : BOOLEAN, mpi : BOOLEAN, aware : BOOLEAN]

\* pyocomm.backend_flags after the probing in pyocomm/__init__.py (pyompi's
\* CUPY_AVAILABLE, NCCL_AVAILABLE, MPI_AVAILABLE, MPI_GPU_AWARE are probed
\* the same way): nccl is only looked for inside a working cupy, device
\* awareness only with both cupy and mpi4py.
backend_flags(env) ==
    [cupy_avail |-> env.cupy,
     nccl_avail |-> env.cupy /\ env.nccl,
     mpi_avail |-> env.mpi,
     mpi_cuda_aware |-> env.mpi /\ env.cupy /\ env.aware]

\* The participants of the communicator, by rank.
Procs == {0, 1}

\* Each participant's arrays: numpy arrays, cupy arrays, and the arrays a
\* call allocates for itself (t1, t2 on the host, t3 on the device).
HostArrays == {"h1", "g1", "h2", "g2"}

DeviceArrays == {"d1", "e1", "d2", "e2"}

HostTemps == {"t1", "t2"}

DeviceTemps == {"t3"}

Temps == HostTemps \cup DeviceTemps

Arrays == HostArrays \cup DeviceArrays \cup Temps

\* Where an array lives.
Space(b) == IF b \in DeviceArrays \cup DeviceTemps THEN "Device" ELSE "Host"

\* The fixed shape of a caller's array.
ArrayLen(b) == IF b \in {"h2", "g2", "d2", "e2"} THEN 2 ELSE 1

\* The values the callers fill their arrays with: element i of every array
\* of participant p is seed + 10 p + i - 1.
Seeds == {1, 5}

FreshMem(seed) ==
    [p \in Procs |-> [b \in Arrays |->
        IF b \in Temps THEN << >>
        ELSE [i \in 1..ArrayLen(b) |-> seed + 10 * p + i - 1]]]

\* What an uninitialised array (np.empty_like) may hold in each element.
Garbage == {0, 7}

\* Reduction operator strings the callers pass to the transport backends.
OpNames == {"sum", "max", "min", "prod", "mean"}

\* What one participant saw of a call: the exception raised (Ok: none), the
\* reference returned, and the copies, allocations and transport calls its
\* handler made, in order.
NoOut == [err |-> Ok, ret |-> "None", trace |-> << >>]

\* The arguments of a call: a: data / send_data / sendbuf, b: buf /
\* recv_data / recvbuf, sa: send_buffer / comm_buffer, sb: recv_buffer,
\* root (for send and recv: the sender's rank), rop: op, comm: the comm
\* argument of the pyompi wrapper.
NoCallArgs == [a |-> "None", b |-> "None", sa |-> "None", sb |-> "None",
               root |-> 0, rop |-> "none", comm |-> "None"]

CallArgs(args) == [f \in DOMAIN NoCallArgs |->
    IF f \in DOMAIN args THEN args[f] ELSE NoCallArgs[f]]

\* The record of a call: the method and its class, the arguments, what
\* each participant saw (out), what each participant sees when the same
\* call is made on an OMPI (ompi) and the arrays that call leaves
\* (ompimem), the arrays as the call found them (premem), and for the
\* loading of the package its outcome (loaded).  Between two calls, with
\* the arrays m:
Waiting(m) == [op |-> "idle", backend |-> "none", args |-> NoCallArgs,
               out |-> [p \in Procs |-> NoOut],
               ompi |-> [p \in Procs |-> NoOut],
               ompimem |-> m, premem |-> m, loaded |-> "none"]

NoRun == Waiting(mem)

\* OBARE.__init__ and the caller's arrays
Init ==
    /\ heap \in [Bufs -> Samples]
    /\ \A b \in Bufs : Len(heap[b]) = BufLen(b)
    /\ send_buff = << >>
    /\ sent = [t \in Tags |-> << >>]
    /\ last = NoArgs
    /\ pre = Snapshot
    /\ flags = backend_flags([cupy |-> FALSE, nccl |-> FALSE, mpi |-> FALSE,
                              aware |-> FALSE])
    /\ mem = FreshMem(1)
    /\ run = NoRun

\* The caller is between two calls.
Idle == last.op = "idle"

\* A call returns or raises: its outcome is recorded with the state it found.
Outcome(op, err, args) ==
    /\ last' = Call(op, err, args)
    /\ pre' = Snapshot
    /\ UNCHANGED world

\* The caller has looked at the outcome and goes on.
Return ==
    /\ ~Idle
    /\ last' = NoArgs
    /\ pre' = Snapshot
    /\ UNCHANGED <<heap, send_buff, sent>>
    /\ UNCHANGED world

\* The caller writes into one of its own arrays (shape kept).
Overwrite(b, v) ==
    /\ Idle
    /\ Len(v) = Len(heap[b])
    /\ v # heap[b]
    /\ heap' = [heap EXCEPT ![b] = v]
    /\ UNCHANGED <<send_buff, sent, last>>
    /\ pre' = [heap |-> heap', send_buff |-> send_buff]
    /\ UNCHANGED world

\* ------------------------------------------------------------------------
\* Point-to-point
\* ------------------------------------------------------------------------

\* send_buff after `if tag not in send_buff: send_buff[tag] = []` and the
\* append of one payload entry.
Enqueue(sb, tag, entry) ==
    LET sb1 == IF tag \in DOMAIN sb THEN sb ELSE (tag :> << >>) @@ sb
    IN [sb1 EXCEPT ![tag] = Append(@, entry)]

Send(data, dest, tag) ==
    LET args == [a |-> data, peer |-> dest, tag |-> tag] IN
    /\ Idle
    /\ IF dest # rank
       THEN /\ Outcome("send", ErrDest, args)
            /\ UNCHANGED <<heap, send_buff, sent>>
       ELSE /\ Pending(sent, Tags) < MaxPending
            /\ send_buff' = Enqueue(send_buff, tag,
                   [p |-> ArrayCopy(heap, data), orig |-> heap[data]])
            /\ sent' = [sent EXCEPT ![tag] = Append(@, heap[data])]
            /\ Outcome("send", Ok, args)
            /\ UNCHANGED heap

Recv(buf, source, tag) ==
    LET args == [b |-> buf, peer |-> source, tag |-> tag] IN
    /\ Idle
    /\ IF source # rank
       THEN /\ Outcome("recv", ErrSource, args)
            /\ UNCHANGED <<heap, send_buff, sent>>
       ELSE IF tag \notin DOMAIN send_buff
       THEN /\ Outcome("recv", ErrNoData, args)
            /\ UNCHANGED <<heap, send_buff, sent>>
       ELSE IF send_buff[tag] = << >>
       THEN \* list.pop(0) on an empty list
            /\ Outcome("recv", ErrPopEmpty, args)
            /\ UNCHANGED <<heap, send_buff, sent>>
       ELSE LET e == Head(send_buff[tag])
                v == Deref(heap, e.p)
                res == [orig |-> e.orig, want |-> Head(sent[tag])] @@ args
            IN \* the payload is popped before it is written into buf
               /\ send_buff' = [send_buff EXCEPT ![tag] = Tail(@)]
               /\ IF CanAssign(heap[buf], v)
                  THEN /\ heap' = [heap EXCEPT ![buf] = SliceAssign(@, v)]
                       /\ sent' = [sent EXCEPT ![tag] = Tail(@)]
                       /\ Outcome("recv", Ok, res)
                  ELSE /\ Outcome("recv", ErrBroadcast, res)
                       /\ UNCHANGED <<heap, sent>>

\* ------------------------------------------------------------------------
\* Collectives
\* ------------------------------------------------------------------------

\* recv_data[:] = send_data
\* Faulty variant: the copy is left out.
CopyNothing(h, recv_data, send_data) == h

CopyInto(h, recv_data, send_data) ==
    [h EXCEPT ![recv_data] = SliceAssign(@, h[send_data])]

\* The operators reduce and allreduce accept.
\* Faulty variant: one operator too many.
ValidOpsAndProd == {"sum", "max", "min", "prod"}

ValidOps == {"sum", "max", "min"}

\* bcast's `return data`: the reference it was given
\* Faulty variant: nothing is returned.
BcastReturnsNone(data) == "none"

BcastReturn(data) == data

Bcast(data, root) ==
    LET args == [a |-> data, peer |-> root] IN
    /\ Idle
    /\ IF root # rank
       THEN Outcome("bcast", ErrRoot, args)
       ELSE Outcome("bcast", Ok, [ret |-> BcastReturn(data)] @@ args)
    /\ UNCHANGED <<heap, send_buff, sent>>

Scatter(send_data, recv_data, root) ==
    LET args == [a |-> send_data, b |-> recv_data, peer |-> root] IN
    /\ Idle
    /\ UNCHANGED <<send_buff, sent>>
    /\ IF root # rank
       THEN Outcome("scatter", ErrRoot, args) /\ UNCHANGED heap
       ELSE IF Shape(heap[send_data]) # Shape(heap[recv_data])
       THEN Outcome("scatter", ErrShape, args) /\ UNCHANGED heap
       ELSE /\ heap' = CopyInto(heap, recv_data, send_data)
            /\ Outcome("scatter", Ok, args)

Gather(send_data, recv_data, root) ==
    LET args == [a |-> send_data, b |-> recv_data, peer |-> root] IN
    /\ Idle
    /\ UNCHANGED <<send_buff, sent>>
    /\ IF root # rank
       THEN Outcome("gather", ErrRoot, args) /\ UNCHANGED heap
       ELSE IF Shape(heap[send_data]) # Shape(heap[recv_data])
       THEN Outcome("gather", ErrShape, args) /\ UNCHANGED heap
       ELSE /\ heap' = CopyInto(heap, recv_data, send_data)
            /\ Outcome("gather", Ok, args)

Allgather(send_data, recv_data) ==
    LET args == [a |-> send_data, b |-> recv_data] IN
    /\ Idle
    /\ UNCHANGED <<send_buff, sent>>
    /\ IF Shape(heap[send_data]) # Shape(heap[recv_data])
       THEN Outcome("allgather", ErrShape, args) /\ UNCHANGED heap
       ELSE /\ heap' = CopyInto(heap, recv_data, send_data)
            /\ Outcome("allgather", Ok, args)

Reduce(send_data, recv_data, op, root) ==
    LET args == [a |-> send_data, b |-> recv_data, rop |-> op, peer |-> root] IN
    /\ Idle
    /\ UNCHANGED <<send_buff, sent>>
    /\ IF root # rank
       THEN Outcome("reduce", ErrRoot, args) /\ UNCHANGED heap
       ELSE IF Shape(heap[send_data]) # Shape(heap[recv_data])
       THEN Outcome("reduce", ErrShape, args) /\ UNCHANGED heap
       ELSE IF op \notin ValidOps
       THEN Outcome("reduce", ErrOp, args) /\ UNCHANGED heap
       ELSE /\ heap' = CopyInto(heap, recv_data, send_data)
            /\ Outcome("reduce", Ok, args)

Allreduce(send_data, recv_data, op) ==
    LET args == [a |-> send_data, b |-> recv_data, rop |-> op] IN
    /\ Idle
    /\ UNCHANGED <<send_buff, sent>>
    /\ IF Shape(heap[send_data]) # Shape(heap[recv_data])
       THEN Outcome("allreduce", ErrShape, args) /\ UNCHANGED heap
       ELSE IF op \notin ValidOps
       THEN Outcome("allreduce", ErrOp, args) /\ UNCHANGED heap
       ELSE /\ heap' = CopyInto(heap, recv_data, send_data)
            /\ Outcome("allreduce", Ok, args)

Alltoall(send_data, recv_data) ==
    LET args == [a |-> send_data, b |-> recv_data] IN
    /\ Idle
    /\ UNCHANGED <<send_buff, sent>>
    /\ IF Shape(heap[send_data]) # Shape(heap[recv_data])
       THEN Outcome("alltoall", ErrShape, args) /\ UNCHANGED heap
       ELSE /\ heap' = CopyInto(heap, recv_data, send_data)
            /\ Outcome("alltoall", Ok, args)

Barrier ==
    /\ Idle
    /\ Outcome("barrier", Ok, << >>)
    /\ UNCHANGED <<heap, send_buff, sent>>

\* ------------------------------------------------------------------------
\* Communicators
\* ------------------------------------------------------------------------

\* self.copy(): neither OBARE nor OCOMM defines copy, so the attribute
\* lookup raises and no communicator is made.
SelfCopy == [err |-> ErrNoCopy, comm |-> NoComm]

Split(color, key) ==
    LET args == [peer |-> color, tag |-> key] IN
    /\ Idle
    /\ IF color # 0
       THEN Outcome("split", ErrColor, args)
       ELSE Outcome("split", SelfCopy.err, [comm |-> SelfCopy.comm] @@ args)
    /\ UNCHANGED <<heap, send_buff, sent>>

Dup ==
    /\ Idle
    /\ Outcome("dup", SelfCopy.err, [comm |-> SelfCopy.comm])
    /\ UNCHANGED <<heap, send_buff, sent>>

Next ==
    \/ Return
    \/ \E b \in Bufs, v \in Samples : Overwrite(b, v)
    \/ \E d \in Bufs, dest \in Ranks, t \in Tags : Send(d, dest, t)
    \/ \E b \in Bufs, src \in Ranks, t \in Tags : Recv(b, src, t)
    \/ \E d \in Bufs, root \in Ranks : Bcast(d, root)
    \/ \E sr \in BufPairs, root \in Ranks : Scatter(sr[1], sr[2], root)
    \/ \E sr \in BufPairs, root \in Ranks : Gather(sr[1], sr[2], root)
    \/ \E sr \in BufPairs : Allgather(sr[1], sr[2])
    \/ \E sr \in BufPairs, op \in Ops, root \in Ranks : Reduce(sr[1], sr[2], op, root)
    \/ \E sr \in BufPairs, op \in Ops : Allreduce(sr[1], sr[2], op)
    \/ \E sr \in BufPairs : Alltoall(sr[1], sr[2])
    \/ Barrier
    \/ \E color \in Ranks, key \in Ranks : Split(color, key)
    \/ Dup

Spec == Init /\ [][Next]_vars

(***************************************************************************)
(* Part 2: the transport-backed communicators                              *)
(* OMPI (src/src/pyocomm/ompi/ompi.py), ODAMPI                             *)
(* (src/src/pyocomm/odampi/odampi.py) and pyompi's MPI wrapper             *)
(* (src/src/pyompi/core/mpi.py, src/src/pyompi/utils/gpu.py).              *)
(* A call is made by every participant with the same arguments; each       *)
(* participant runs the method up to its transport call, the transport     *)
(* acts once every participant has entered it, and each participant then   *)
(* runs the rest of the method.  The methods are modelled as the class     *)
(* bodies define them, for a process in which the classes exist.           *)
(***************************************************************************)

\* ------------------------------------------------------------------------
\* Exceptions of part 2
\* ------------------------------------------------------------------------
ErrHostBuffer == "ValueError: Host buffer must be on a host array."

ErrModules == "ValueError: Send and receive data must be on the same array module."

\* cupy.ndarray.get(out=...) / set(arr) with an array of another shape
ErrCupyShape == "ValueError: Shape mismatch"

\* cupy.ndarray.set(None)
ErrSetType == "TypeError: Only numpy.ndarray can be set to cupy.ndarray"

\* MPI.__dict__[op.upper()] for a name mpi4py.MPI does not define
ErrKeyOp == "KeyError: op"

\* Inside pyompi/core/mpi.py the name MPI is the class MPI(OMPI) defined
\* there, which rebinds the name the mpi4py module was imported under.
ErrNoWorld == "AttributeError: type object 'MPI' has no attribute 'COMM_WORLD'"

ErrNoSum == "AttributeError: type object 'MPI' has no attribute 'SUM'"

\* The transport reports an error or the process dies in it.
ErrTransport == "transport error"

\* The participant waits in the transport for peers that never enter it.
ErrHang == "blocked in the transport"

\* ------------------------------------------------------------------------
\* Arrays, copies between the spaces, and a handler's progress
\* ------------------------------------------------------------------------

\* An entry of a handler's trace: ev is "alloc" (np.empty_like: x the
\* prototype, y the new array), "d2h" or "h2d" (x copied into y; y "fresh"
\* for an array nobody keeps), or "transport" (fn called on x and y).
Ev(ev, fn, x, y) == [ev |-> ev, fn |-> fn, x |-> x, y |-> y]

\* A handler's progress on one participant: the exception it raised so
\* far, its trace, and the participant's arrays.
Start(m) == [err |-> Ok, trace |-> << >>, m |-> m]

Raise(s, err) == [s EXCEPT !.err = err]

\* _get_module_from_array: cupy for a cupy array when cupy is available,
\* numpy for everything else (None included).
get_module_from_array(f, arr) ==
    IF f.cupy_avail /\ arr # "None" /\ Space(arr) = "Device"
    THEN "cupy" ELSE "numpy"

\* get_array_module_name: the package of the array's type.
get_array_module_name(arr) ==
    IF Space(arr) = "Device" THEN "cupy" ELSE "numpy"

\* tmp = np.empty_like(like): a host array of like's shape, not initialised.
empty_like(s, like, tmp, g) ==
    [s EXCEPT !.m[tmp] = [i \in 1..Len(s.m[like]) |-> g],
              !.trace = Append(@, Ev("alloc", "empty_like", like, tmp))]

\* src.get(out=out) of a cupy array: without out a new host array is
\* returned; with out the shapes are compared before anything is copied.
Get(s, src, out) ==
    IF s.err # Ok THEN s
    ELSE IF out = "None"
    THEN [s EXCEPT !.trace = Append(@, Ev("d2h", "get", src, "fresh"))]
    ELSE IF Len(s.m[out]) # Len(s.m[src]) THEN Raise(s, ErrCupyShape)
    ELSE [s EXCEPT !.m[out] = s.m[src],
                   !.trace = Append(@, Ev("d2h", "get", src, out))]

\* dst.set(arr): arr must be a numpy array of dst's shape; returns None.
Set(s, dst, arr) ==
    IF s.err # Ok THEN s
    ELSE IF arr = "None" THEN Raise(s, ErrSetType)
    ELSE IF Len(s.m[arr]) # Len(s.m[dst]) THEN Raise(s, ErrCupyShape)
    ELSE [s EXCEPT !.m[dst] = s.m[arr],
                   !.trace = Append(@, Ev("h2d", "set", arr, dst))]

\* A transport call: the function, its one or two array arguments, the
\* reduction operator and the root.
NoTx == [fn |-> "none", x |-> "None", y |-> "None", rop |-> "none"]

Tx(fn, x, y, rop) == [fn |-> fn, x |-> x, y |-> y, rop |-> rop]

\* The first part of a handler ends: with an exception, with a return that
\* made no transport call, or by entering the transport (sa and sb: the
\* staging arrays it goes on with after the transport returns).
Ends(s) == [err |-> s.err, trace |-> s.trace, m |-> s.m, tx |-> NoTx,
            sa |-> "None", sb |-> "None"]

Enters(s, tx, sa, sb) ==
    IF s.err # Ok THEN Ends(s)
    ELSE [err |-> Ok, m |-> s.m, tx |-> tx, sa |-> sa, sb |-> sb,
          trace |-> Append(s.trace, Ev("transport", tx.fn, tx.x, tx.y))]

\* The rest of a handler ends, returning ret unless it raised.
Returns(s, ret) ==
    [err |-> s.err, trace |-> s.trace, m |-> s.m,
     ret |-> IF s.err = Ok THEN ret ELSE "None"]

\* The operator names MPI.__dict__ holds, among the names the callers use.
MPIOps == {"sum", "max", "min", "prod"}

\* ------------------------------------------------------------------------
\* The transport: blocking calls that read and write the arrays they are
\* given in place, once every participant has entered
\* ------------------------------------------------------------------------

\* The number of participants: comm.Get_size().
Get_size == Cardinality(Procs)

\* The transport can reach host memory, and device memory when the MPI
\* library is device-aware.
Accessible(f, b) == Space(b) = "Host" \/ f.mpi_cuda_aware

\* One value per participant, in rank order.
InRankOrder(F) == [i \in 1..Get_size |-> F[i - 1]]

RECURSIVE Flatten(_)
Flatten(seqs) ==
    IF seqs = << >> THEN << >> ELSE Head(seqs) \o Flatten(Tail(seqs))

\* The q-th of Get_size equal parts of v.
Chunk(v, q) ==
    LET c == Len(v) \div Get_size IN SubSeq(v, q * c + 1, (q + 1) * c)

\* MPI.SUM, MPI.MAX, MPI.MIN, MPI.PROD, element by element.
Combine(rop, u, v) ==
    [i \in 1..Len(u) |->
        CASE rop = "sum" -> u[i] + v[i]
          [] rop = "max" -> IF u[i] > v[i] THEN u[i] ELSE v[i]
          [] rop = "min" -> IF u[i] < v[i] THEN u[i] ELSE v[i]
          [] OTHER -> u[i] * v[i]]

RECURSIVE Reduction(_, _)
Reduction(rop, seqs) ==
    IF Len(seqs) = 1 THEN seqs[1]
    ELSE Combine(rop, seqs[1], Reduction(rop, Tail(seqs)))

\* What the transport writes: per participant the array written (target,
\* "None": nothing) and the value (v); ok is FALSE when the counts of the
\* participants do not fit together.  tx: the call of each participant,
\* rd: what the transport reads from each participant's first argument.
Delivery(target, v) == [target |-> target, v |-> v]

Nothing == Delivery("None", << >>)

DeliveriesOf(fn, root, tx, rd, ins) ==
    CASE fn = "send" ->
           [ok |-> TRUE,
            d |-> [p \in Procs |-> IF p = root THEN Nothing
                                   ELSE Delivery(tx[p].x, rd[root])]]
      [] fn = "bcast" ->
           [ok |-> TRUE,
            d |-> [p \in Procs |-> Delivery(tx[p].x, rd[root])]]
      [] fn = "scatter" ->
           [ok |-> Len(rd[root]) % Get_size = 0,
            d |-> [p \in Procs |-> Delivery(tx[p].y, Chunk(rd[root], p))]]
      [] fn = "gather" ->
           [ok |-> \A p \in Procs : Len(rd[p]) = Len(rd[root]),
            d |-> [p \in Procs |-> IF p = root
                                   THEN Delivery(tx[p].y, Flatten(ins))
                                   ELSE Nothing]]
      [] fn = "allgather" ->
           [ok |-> \A p \in Procs : Len(rd[p]) = Len(rd[root]),
            d |-> [p \in Procs |-> Delivery(tx[p].y, Flatten(ins))]]
      [] fn = "reduce" ->
           [ok |-> \A p \in Procs : Len(rd[p]) = Len(rd[root]),
            d |-> [p \in Procs |->
                     IF p = root
                     THEN Delivery(tx[p].y, Reduction(tx[p].rop, ins))
                     ELSE Nothing]]
      [] fn = "allreduce" ->
           [ok |-> \A p \in Procs : Len(rd[p]) = Len(rd[root]),
            d |-> [p \in Procs |->
                     Delivery(tx[p].y, Reduction(tx[p].rop, ins))]]
      [] OTHER -> \* alltoall
           [ok |-> \A p \in Procs : Len(rd[p]) % Get_size = 0,
            d |-> [p \in Procs |->
                     Delivery(tx[p].y,
                         Flatten([i \in 1..Get_size |-> Chunk(ins[i], p)]))]]

Deliveries(a, tx, rd) ==
    DeliveriesOf(tx[a.root].fn, a.root, tx, rd, InRankOrder(rd))

\* What the transport reads from each participant's first argument: the
\* array's content, or arbitrary values (g) when it cannot reach the array.
Reads(f, tx, ms, g) ==
    [p \in Procs |->
        IF tx[p].x = "None" THEN << >>
        ELSE IF Accessible(f, tx[p].x) THEN ms[p][tx[p].x]
        ELSE [i \in 1..Len(ms[p][tx[p].x]) |-> g]]

\* The arrays after the deliveries dl: a message longer than the array it
\* is received into is an error, a shorter one fills the front of the
\* array, and what is written to an array out of reach is lost.
Written(f, ms, dl) ==
    IF ~dl.ok
       \/ \E p \in Procs : /\ dl.d[p].target # "None"
                           /\ Len(dl.d[p].v) > Len(ms[p][dl.d[p].target])
    THEN [err |-> ErrTransport, m |-> ms]
    ELSE [err |-> Ok,
          m |-> [p \in Procs |->
                   IF dl.d[p].target = "None"
                      \/ ~Accessible(f, dl.d[p].target)
                   THEN ms[p]
                   ELSE [ms[p] EXCEPT ![dl.d[p].target] =
                            dl.d[p].v \o SubSeq(@, Len(dl.d[p].v) + 1, Len(@))]]]

\* The transport acts.  An array it cannot reach is undefined behaviour of
\* the MPI library: either the call fails (crash), or it reads arbitrary
\* values from the array and what it writes to it is lost.
Transport(f, a, tx, ms, g, crash) ==
    IF crash /\ \E p \in Procs : \E b \in {tx[p].x, tx[p].y} \ {"None"} :
                                    ~Accessible(f, b)
    THEN [err |-> ErrTransport, m |-> ms]
    ELSE Written(f, ms, Deliveries(a, tx, Reads(f, tx, ms, g)))

\* ------------------------------------------------------------------------
\* OMPI: every method forwards its arguments to the transport
\* ------------------------------------------------------------------------
OMPI_send(s, a) == Enters(s, Tx("send", a.a, "None", "none"), "None", "None")

OMPI_recv(s, a) == Enters(s, Tx("recv", a.b, "None", "none"), "None", "None")

OMPI_bcast(s, a) == Enters(s, Tx("bcast", a.a, "None", "none"), "None", "None")

\* return data
OMPI_bcast_return(s, a) == Returns(s, a.a)

OMPI_scatter(s, a) == Enters(s, Tx("scatter", a.a, a.b, "none"), "None", "None")

OMPI_gather(s, a) == Enters(s, Tx("gather", a.a, a.b, "none"), "None", "None")

OMPI_allgather(s, a) ==
    Enters(s, Tx("allgather", a.a, a.b, "none"), "None", "None")

\* op=MPI.__dict__[op.upper()] is evaluated before the call is made.
OMPI_reduce(s, a) ==
    IF a.rop \notin MPIOps THEN Ends(Raise(s, ErrKeyOp))
    ELSE Enters(s, Tx("reduce", a.a, a.b, a.rop), "None", "None")

OMPI_allreduce(s, a) ==
    IF a.rop \notin MPIOps THEN Ends(Raise(s, ErrKeyOp))
    ELSE Enters(s, Tx("allreduce", a.a, a.b, a.rop), "None", "None")

OMPI_alltoall(s, a) ==
    Enters(s, Tx("alltoall", a.a, a.b, "none"), "None", "None")

\* ------------------------------------------------------------------------
\* ODAMPI: send, recv, bcast and scatter look at where their data lives;
\* the other methods forward their arguments
\* ------------------------------------------------------------------------
ODAMPI_send(f, s, a, g) ==
    IF get_module_from_array(f, a.a) = "numpy"
    THEN Enters(s, Tx("send", a.a, "None", "none"), "None", "None")
    ELSE LET send_buffer == IF a.sa = "None" THEN "t1" ELSE a.sa
             s1 == IF a.sa = "None" THEN empty_like(s, a.a, "t1", g) ELSE s
         IN IF get_module_from_array(f, send_buffer) # "numpy"
            THEN Ends(Raise(s1, ErrHostBuffer))
            ELSE Enters(Get(s1, a.a, send_buffer),
                        Tx("send", send_buffer, "None", "none"),
                        send_buffer, "None")

ODAMPI_recv(f, s, a, g) ==
    IF get_module_from_array(f, a.b) = "numpy"
    THEN Enters(s, Tx("recv", a.b, "None", "none"), "None", "None")
    ELSE LET recv_buffer == IF a.sb = "None" THEN "t1" ELSE a.sb
             s1 == IF a.sb = "None" THEN empty_like(s, a.b, "t1", g) ELSE s
         IN IF get_module_from_array(f, recv_buffer) # "numpy"
            THEN Ends(Raise(s1, ErrHostBuffer))
            ELSE Enters(s1, Tx("recv", recv_buffer, "None", "none"),
                        "None", recv_buffer)

\* buf.set(arr=recv_buffer)
ODAMPI_recv_return(f, s, a, e) ==
    IF get_module_from_array(f, a.b) = "numpy" THEN Returns(s, "None")
    ELSE Returns(Set(s, a.b, e.sb), "None")

\* Without a comm_buffer the new host array is bound to host_buffer, a name
\* nothing reads: comm_buffer stays None.
ODAMPI_bcast(f, p, s, a, g) ==
    IF get_module_from_array(f, a.a) = "numpy"
    THEN Enters(s, Tx("bcast", a.a, "None", "none"), "None", "None")
    ELSE LET comm_buffer == a.sa
             s1 == IF a.sa = "None" THEN empty_like(s, a.a, "t1", g) ELSE s
         IN IF get_module_from_array(f, comm_buffer) # "numpy"
            THEN Ends(Raise(s1, ErrHostBuffer))
            ELSE Enters(IF a.root = p THEN Get(s1, a.a, comm_buffer) ELSE s1,
                        Tx("bcast", comm_buffer, "None", "none"),
                        comm_buffer, "None")

\* The numpy branch ends without a return statement; the cupy branch
\* returns what data.set returns, which is None.
ODAMPI_bcast_return(f, s, a, e) ==
    IF get_module_from_array(f, a.a) = "numpy" THEN Returns(s, "None")
    ELSE Returns(Set(s, a.a, e.sa), "None")

\* The transport is called with send_data and recv_data on both branches.
ODAMPI_scatter(f, p, s, a, g) ==
    IF get_module_from_array(f, a.a) # get_module_from_array(f, a.b)
    THEN Ends(Raise(s, ErrModules))
    ELSE IF get_module_from_array(f, a.a) = "numpy"
            /\ get_module_from_array(f, a.b) = "numpy"
    THEN Enters(s, Tx("scatter", a.a, a.b, "none"), "None", "None")
    ELSE LET send_buffer == IF a.sa = "None" THEN "t1" ELSE a.sa
             recv_buffer == IF a.sb = "None" THEN "t2" ELSE a.sb
             s1 == IF a.sa = "None" THEN empty_like(s, a.a, "t1", g) ELSE s
             s2 == IF a.sb = "None" THEN empty_like(s1, a.b, "t2", g) ELSE s1
         IN IF get_module_from_array(f, send_buffer) # "numpy"
            THEN Ends(Raise(s1, ErrHostBuffer))
            ELSE IF get_module_from_array(f, recv_buffer) # "numpy"
            THEN Ends(Raise(s2, ErrHostBuffer))
            ELSE Enters(IF a.root = p THEN Get(s2, a.a, send_buffer) ELSE s2,
                        Tx("scatter", a.a, a.b, "none"),
                        send_buffer, recv_buffer)

\* recv_data.set(arr=recv_buffer)
ODAMPI_scatter_return(f, s, a, e) ==
    IF get_module_from_array(f, a.a) = "numpy" THEN Returns(s, "None")
    ELSE Returns(Set(s, a.b, e.sb), "None")

ODAMPI_gather(s, a) == Enters(s, Tx("gather", a.a, a.b, "none"), "None", "None")

ODAMPI_allgather(s, a) ==
    Enters(s, Tx("allgather", a.a, a.b, "none"), "None", "None")

ODAMPI_reduce(s, a) ==
    IF a.rop \notin MPIOps THEN Ends(Raise(s, ErrKeyOp))
    ELSE Enters(s, Tx("reduce", a.a, a.b, a.rop), "None", "None")

ODAMPI_allreduce(s, a) ==
    IF a.rop \notin MPIOps THEN Ends(Raise(s, ErrKeyOp))
    ELSE Enters(s, Tx("allreduce", a.a, a.b, a.rop), "None", "None")

ODAMPI_alltoall(s, a) ==
    Enters(s, Tx("alltoall", a.a, a.b, "none"), "None", "None")

\* ------------------------------------------------------------------------
\* pyompi: MPI.allreduce and the copies of pyompi.utils.gpu
\* ------------------------------------------------------------------------

\* get_host(in_arr): a numpy array is returned as it is; a cupy array is
\* copied into a new host array (tmp), which is returned.
get_host(s, in_arr, tmp) ==
    IF get_array_module_name(in_arr) = "numpy"
    THEN [s |-> s, ref |-> in_arr]
    ELSE [s |-> [s EXCEPT !.m[tmp] = s.m[in_arr],
                          !.trace = Append(@, Ev("d2h", "get", in_arr, tmp))],
          ref |-> tmp]

\* get_device(in_arr): a cupy array is returned as it is; anything else
\* goes through xp.asarray, which makes a new device array (tmp) when xp
\* is cupy and returns its argument when xp is numpy.
get_device(f, s, in_arr, tmp) ==
    IF get_array_module_name(in_arr) = "cupy" \/ ~f.cupy_avail
    THEN [s |-> s, ref |-> in_arr]
    ELSE [s |-> [s EXCEPT !.m[tmp] = s.m[in_arr],
                          !.trace = Append(@, Ev("h2d", "asarray", in_arr, tmp))],
          ref |-> tmp]

\* MPI.allreduce(sendbuf, recvbuf, op, comm).  The names sendbuf and
\* recvbuf are rebound to what get_host and get_device return; op="sum"
\* is the only operator looked at, and MPI.SUM is read off the class.
MPI_allreduce(f, s, a) ==
    IF a.comm = "None" THEN Ends(Raise(s, ErrNoWorld))
    ELSE LET sendbuf == IF f.mpi_cuda_aware THEN [s |-> s, ref |-> a.a]
                        ELSE get_host(s, a.a, "t1")
             recvbuf == IF f.mpi_cuda_aware THEN [s |-> sendbuf.s, ref |-> a.b]
                        ELSE get_host(sendbuf.s, a.b, "t2")
         IN IF a.rop = "sum" THEN Ends(Raise(recvbuf.s, ErrNoSum))
            ELSE IF f.mpi_cuda_aware THEN Ends(recvbuf.s)
            ELSE Ends(get_device(f, recvbuf.s, recvbuf.ref, "t3").s)

\* ------------------------------------------------------------------------
\* A call made by every participant
\* ------------------------------------------------------------------------

\* The method up to and including its transport call, on participant p.
\* For "sendrecv" participant a.root sends and the other one receives.
Enter(backend, op, p, f, m, a, g) ==
    LET s == Start(m) IN
    CASE backend = "OMPI" /\ op = "sendrecv" ->
            IF p = a.root THEN OMPI_send(s, a) ELSE OMPI_recv(s, a)
      [] backend = "OMPI" /\ op = "bcast" -> OMPI_bcast(s, a)
      [] backend = "OMPI" /\ op = "scatter" -> OMPI_scatter(s, a)
      [] backend = "OMPI" /\ op = "gather" -> OMPI_gather(s, a)
      [] backend = "OMPI" /\ op = "allgather" -> OMPI_allgather(s, a)
      [] backend = "OMPI" /\ op = "reduce" -> OMPI_reduce(s, a)
      [] backend = "OMPI" /\ op = "allreduce" -> OMPI_allreduce(s, a)
      [] backend = "OMPI" /\ op = "alltoall" -> OMPI_alltoall(s, a)
      [] backend = "ODAMPI" /\ op = "sendrecv" ->
            IF p = a.root THEN ODAMPI_send(f, s, a, g)
            ELSE ODAMPI_recv(f, s, a, g)
      [] backend = "ODAMPI" /\ op = "bcast" -> ODAMPI_bcast(f, p, s, a, g)
      [] backend = "ODAMPI" /\ op = "scatter" -> ODAMPI_scatter(f, p, s, a, g)
      [] backend = "ODAMPI" /\ op = "gather" -> ODAMPI_gather(s, a)
      [] backend = "ODAMPI" /\ op = "allgather" -> ODAMPI_allgather(s, a)
      [] backend = "ODAMPI" /\ op = "reduce" -> ODAMPI_reduce(s, a)
      [] backend = "ODAMPI" /\ op = "allreduce" -> ODAMPI_allreduce(s, a)
      [] backend = "ODAMPI" /\ op = "alltoall" -> ODAMPI_alltoall(s, a)
      [] OTHER -> MPI_allreduce(f, s, a)

\* The rest of the method after the transport call returned, on
\* participant p; e is what Enter left.
Exit(backend, op, p, f, s, a, e) ==
    CASE backend = "OMPI" /\ op = "bcast" -> OMPI_bcast_return(s, a)
      [] backend = "ODAMPI" /\ op = "sendrecv" /\ p # a.root ->
            ODAMPI_recv_return(f, s, a, e)
      [] backend = "ODAMPI" /\ op = "bcast" -> ODAMPI_bcast_return(f, s, a, e)
      [] backend = "ODAMPI" /\ op = "scatter" ->
            ODAMPI_scatter_return(f, s, a, e)
      [] OTHER -> Returns(s, "None")

\* The arrays a call allocated are dropped when it ends.
Free(m) == [b \in Arrays |-> IF b \in Temps THEN << >> ELSE m[b]]

\* How the call ends on participant p: e is what Enter left on every
\* participant, t what the transport did.  A participant that entered the
\* transport while another did not waits for ever.
End(backend, op, p, f, a, e, t) ==
    IF e[p].tx.fn = "none"
    THEN Returns([err |-> e[p].err, trace |-> e[p].trace, m |-> e[p].m],
                 "None")
    ELSE IF \E q \in Procs : e[q].tx.fn = "none"
    THEN Returns([err |-> ErrHang, trace |-> e[p].trace, m |-> e[p].m],
                 "None")
    ELSE IF t.err # Ok
    THEN Returns([err |-> t.err, trace |-> e[p].trace, m |-> t.m[p]], "None")
    ELSE Exit(backend, op, p, f,
              [err |-> Ok, trace |-> e[p].trace, m |-> t.m[p]], a, e[p])

\* The arrays and what each participant saw once the call has ended.
Ended(ends) ==
    [mem |-> [p \in Procs |-> Free(ends[p].m)],
     out |-> [p \in Procs |-> [err |-> ends[p].err, ret |-> ends[p].ret,
                               trace |-> ends[p].trace]]]

Entered(backend, op, a, f, g, crash, e) ==
    Ended([p \in Procs |->
             End(backend, op, p, f, a, e,
                 Transport(f, a, [q \in Procs |-> e[q].tx],
                           [q \in Procs |-> e[q].m], g, crash))])

\* The call on every participant: each runs up to its transport call, the
\* transport acts when every participant has entered it, and each runs
\* the rest.
Exec(backend, op, a, f, ms, g, crash) ==
    Entered(backend, op, a, f, g, crash,
            [p \in Procs |-> Enter(backend, op, p, f, ms[p], a, g)])

\* The callers are between two calls and have filled their arrays.
Ready == run.op = "idle" /\ \E seed \in Seeds : mem = FreshMem(seed)

\* cupy arrays exist only where cupy is available.
Exists(f, refs) == f.cupy_avail \/ refs \cap DeviceArrays = {}

\* A call of backend.op by every participant; its outcome is recorded next
\* to the outcome of the same call on an OMPI.
Recorded(backend, op, a, ms, r, o) ==
    [op |-> op, backend |-> backend, args |-> a,
     out |-> r.out, ompi |-> o.out, ompimem |-> o.mem,
     premem |-> ms, loaded |-> "none"]

Collective(backend, op, args) ==
    /\ Ready
    /\ \E a \in {CallArgs(args)}, g \in Garbage, crash \in BOOLEAN :
          /\ Exists(flags, {a.a, a.b, a.sa, a.sb})
          /\ \E r \in {Exec(backend, op, a, flags, mem, g, crash)} :
                /\ mem' = r.mem
                /\ run' = Recorded(backend, op, a, mem, r,
                                   Exec("OMPI", op, a, flags, mem, g, crash))
    /\ UNCHANGED <<flags, heap, send_buff, sent, last, pre>>

\* ------------------------------------------------------------------------
\* Loading the package
\* ------------------------------------------------------------------------
ErrPartial == "ImportError: cannot import name from partially initialized module 'pyocomm'"

ErrNoMPI == "NameError: name 'MPI' is not defined"

ErrKeyCuda == "KeyError: 'cuda_avail'"

\* The names pyocomm/__init__.py binds, in order.
PackageNames == <<"OCOMM", "OBARE", "OMPI", "backend_flags">>

\* The names bound before the n-th one is.
BoundBefore(n) == {PackageNames[i] : i \in 1..(n - 1)}

\* The body of pyocomm/obare/obare.py: from pyocomm import OCOMM.
obare_py(names) == IF "OCOMM" \in names THEN Ok ELSE ErrPartial

\* The body of pyocomm/ompi/ompi.py: from pyocomm import OCOMM,
\* backend_flags; mpi4py is imported if the flag says so; the default
\* value MPI.COMM_WORLD of OMPI.__init__ is evaluated with the class.
ompi_py(names, f) ==
    IF ~({"OCOMM", "backend_flags"} \subseteq names) THEN ErrPartial
    ELSE IF ~f.mpi_avail THEN ErrNoMPI
    ELSE Ok

\* The body of pyocomm/odampi/odampi.py up to the class: the same import,
\* then backend_flags["cuda_avail"], a key the flags do not have.
odampi_py(names, f) ==
    IF ~({"OCOMM", "backend_flags"} \subseteq names) THEN ErrPartial
    ELSE ErrKeyCuda

\* pyocomm/__init__.py: OCOMM, OBARE and OMPI are imported before
\* backend_flags is bound and filled in.
pyocomm_init(f) ==
    IF obare_py(BoundBefore(2)) # Ok THEN obare_py(BoundBefore(2))
    ELSE ompi_py(BoundBefore(3), f)

\* import pyocomm, then pyocomm.odampi.odampi, then ODAMPI().
LoadODAMPI(f) ==
    IF pyocomm_init(f) # Ok THEN pyocomm_init(f)
    ELSE odampi_py(BoundBefore(Len(PackageNames) + 1), f)

\* ------------------------------------------------------------------------
\* Part 2, actions
\* ------------------------------------------------------------------------

\* The process environment is probed once; every participant starts with
\* freshly filled arrays.
InitWorld ==
    /\ flags \in {backend_flags(env) : env \in Envs}
    /\ mem \in {FreshMem(seed) : seed \in Seeds}
    /\ run = NoRun
    /\ heap = [b \in Bufs |-> [i \in 1..BufLen(b) |-> 1]]
    /\ send_buff = << >>
    /\ sent = [t \in Tags |-> << >>]
    /\ last = NoArgs
    /\ pre = Snapshot

\* The callers have looked at the outcome and go on.
Done ==
    /\ run.op # "idle"
    /\ run' = NoRun
    /\ UNCHANGED <<flags, mem, heap, send_buff, sent, last, pre>>

\* The callers fill their arrays again.
Fill(seed) ==
    /\ run.op = "idle"
    /\ mem # FreshMem(seed)
    /\ mem' = FreshMem(seed)
    /\ run' = Waiting(mem')
    /\ UNCHANGED <<flags, heap, send_buff, sent, last, pre>>

Load ==
    /\ run.op = "idle"
    /\ run' = [NoRun EXCEPT !.op = "load", !.loaded = LoadODAMPI(flags)]
    /\ UNCHANGED <<flags, mem, heap, send_buff, sent, last, pre>>

\* The arrays the callers pass: data of shape (1,), and for it as staging
\* array nothing, a host array of its shape, a host array of another shape,
\* or a device array.
Data1 == {"h1", "d1"}

Staging1 == {"None", "g1", "h2", "e1"}

\* send_data of shape (2,) with recv_data of shape (1,), and the staging
\* arrays for each of them.
ScatterPairs == {<<"h2", "h1">>, <<"d2", "d1">>, <<"h2", "d1">>, <<"d2", "h1">>}

Staging2 == {"None", "g2", "g1", "e2"}

GatherPairs == {<<"h1", "h2">>, <<"d1", "d2">>}

ReducePairs == {<<"h1", "g1">>, <<"d1", "e1">>}

AlltoallPairs == {<<"h2", "g2">>, <<"d2", "e2">>}

Call_OMPI_send_recv(data, buf, sender) ==
    /\ flags.mpi_avail
    /\ Collective("OMPI", "sendrecv", [a |-> data, b |-> buf, root |-> sender])

Call_OMPI_bcast(data, root) ==
    /\ flags.mpi_avail
    /\ Collective("OMPI", "bcast", [a |-> data, root |-> root])

Call_OMPI_scatter(send_data, recv_data, root) ==
    /\ flags.mpi_avail
    /\ Collective("OMPI", "scatter",
                  [a |-> send_data, b |-> recv_data, root |-> root])

Call_OMPI_gather(send_data, recv_data, root) ==
    /\ flags.mpi_avail
    /\ Collective("OMPI", "gather",
                  [a |-> send_data, b |-> recv_data, root |-> root])

Call_OMPI_allgather(send_data, recv_data) ==
    /\ flags.mpi_avail
    /\ Collective("OMPI", "allgather", [a |-> send_data, b |-> recv_data])

Call_OMPI_reduce(send_data, recv_data, op, root) ==
    /\ flags.mpi_avail
    /\ Collective("OMPI", "reduce",
                  [a |-> send_data, b |-> recv_data, rop |-> op, root |-> root])

Call_OMPI_allreduce(send_data, recv_data, op) ==
    /\ flags.mpi_avail
    /\ Collective("OMPI", "allreduce",
                  [a |-> send_data, b |-> recv_data, rop |-> op])

Call_OMPI_alltoall(send_data, recv_data) ==
    /\ flags.mpi_avail
    /\ Collective("OMPI", "alltoall", [a |-> send_data, b |-> recv_data])

Call_ODAMPI_send_recv(data, buf, sender, send_buffer, recv_buffer) ==
    /\ flags.mpi_avail
    /\ Collective("ODAMPI", "sendrecv",
                  [a |-> data, b |-> buf, root |-> sender,
                   sa |-> send_buffer, sb |-> recv_buffer])

Call_ODAMPI_bcast(data, root, comm_buffer) ==
    /\ flags.mpi_avail
    /\ Collective("ODAMPI", "bcast",
                  [a |-> data, root |-> root, sa |-> comm_buffer])

Call_ODAMPI_scatter(send_data, recv_data, root, send_buffer, recv_buffer) ==
    /\ flags.mpi_avail
    /\ Collective("ODAMPI", "scatter",
                  [a |-> send_data, b |-> recv_data, root |-> root,
                   sa |-> send_buffer, sb |-> recv_buffer])

Call_ODAMPI_gather(send_data, recv_data, root) ==
    /\ flags.mpi_avail
    /\ Collective("ODAMPI", "gather",
                  [a |-> send_data, b |-> recv_data, root |-> root])

Call_ODAMPI_allgather(send_data, recv_data) ==
    /\ flags.mpi_avail
    /\ Collective("ODAMPI", "allgather", [a |-> send_data, b |-> recv_data])

Call_ODAMPI_reduce(send_data, recv_data, op, root) ==
    /\ flags.mpi_avail
    /\ Collective("ODAMPI", "reduce",
                  [a |-> send_data, b |-> recv_data, rop |-> op, root |-> root])

Call_ODAMPI_allreduce(send_data, recv_data, op) ==
    /\ flags.mpi_avail
    /\ Collective("ODAMPI", "allreduce",
                  [a |-> send_data, b |-> recv_data, rop |-> op])

Call_ODAMPI_alltoall(send_data, recv_data) ==
    /\ flags.mpi_avail
    /\ Collective("ODAMPI", "alltoall", [a |-> send_data, b |-> recv_data])

Call_MPI_allreduce(sendbuf, recvbuf, op, comm) ==
    /\ flags.mpi_avail
    /\ Collective("MPI", "allreduce",
                  [a |-> sendbuf, b |-> recvbuf, rop |-> op, comm |-> comm])

NextWorld ==
    \/ Done
    \/ Load
    \/ \E seed \in Seeds : Fill(seed)
    \/ \E d \in Data1, b \in Data1, p \in Procs : Call_OMPI_send_recv(d, b, p)
    \/ \E d \in Data1, root \in Procs : Call_OMPI_bcast(d, root)
    \/ \E sr \in ScatterPairs, root \in Procs :
          Call_OMPI_scatter(sr[1], sr[2], root)
    \/ \E sr \in GatherPairs, root \in Procs :
          Call_OMPI_gather(sr[1], sr[2], root)
    \/ \E sr \in GatherPairs : Call_OMPI_allgather(sr[1], sr[2])
    \/ \E sr \in ReducePairs, op \in OpNames, root \in Procs :
          Call_OMPI_reduce(sr[1], sr[2], op, root)
    \/ \E sr \in ReducePairs, op \in OpNames :
          Call_OMPI_allreduce(sr[1], sr[2], op)
    \/ \E sr \in AlltoallPairs : Call_OMPI_alltoall(sr[1], sr[2])
    \/ \E d \in Data1, b \in Data1, p \in Procs, sa \in Staging1,
          sb \in Staging1 : Call_ODAMPI_send_recv(d, b, p, sa, sb)
    \/ \E d \in Data1, root \in Procs, cb \in Staging1 :
          Call_ODAMPI_bcast(d, root, cb)
    \/ \E sr \in ScatterPairs, root \in Procs, sa \in Staging2,
          sb \in Staging1 : Call_ODAMPI_scatter(sr[1], sr[2], root, sa, sb)
    \/ \E sr \in GatherPairs, root \in Procs :
          Call_ODAMPI_gather(sr[1], sr[2], root)
    \/ \E sr \in GatherPairs : Call_ODAMPI_allgather(sr[1], sr[2])
    \/ \E sr \in ReducePairs, op \in OpNames, root \in Procs :
          Call_ODAMPI_reduce(sr[1], sr[2], op, root)
    \/ \E sr \in ReducePairs, op \in OpNames :
          Call_ODAMPI_allreduce(sr[1], sr[2], op)
    \/ \E sr \in AlltoallPairs : Call_ODAMPI_alltoall(sr[1], sr[2])
    \/ \E sr \in ReducePairs, op \in OpNames, comm \in {"None", "world"} :
          Call_MPI_allreduce(sr[1], sr[2], op, comm)

SpecWorld == InitWorld /\ [][NextWorld]_vars

\* ------------------------------------------------------------------------
\* Properties of the single-process communicator
\* ------------------------------------------------------------------------

\* The error kind an exception stands for: the exceptions OBARE raises on
\* purpose, by their message; "Unspecified" for an exception that escapes
\* from the interpreter or from numpy.
Kind(err) ==
    IF err = Ok THEN "none"
    ELSE IF err \in {ErrDest, ErrSource, ErrRoot, ErrColor} THEN "ProtocolError"
    ELSE IF err = ErrNoData THEN "EmptyQueue"
    ELSE IF err = ErrShape THEN "ShapeMismatch"
    ELSE IF err = ErrOp THEN "InvalidOperation"
    ELSE "Unspecified"

Failed == last.op # "idle" /\ last.err # Ok

Succeeded == last.op # "idle" /\ last.err = Ok

\* The call left the caller's arrays and the per-tag queues as it found them.
NothingChanged == heap = pre.heap /\ send_buff = pre.send_buff

\* Nothing is pending on the tag: never sent to, or everything received.
NoPending(sb, t) == t \notin DOMAIN sb \/ sb[t] = << >>

SomePending(sb) == \E t \in DOMAIN sb : sb[t] # << >>

\* C1: a successful recv(buf, source=0, tag) into a buf of the payload's
\* shape leaves buf equal to the value data had at the moment of the send
\* that enqueued the payload, whatever the caller wrote into data since.
C1_RoundTripCopy ==
    (last.op = "recv" /\ Succeeded /\ Len(heap[last.b]) = Len(last.orig))
        => heap[last.b] = last.orig

\* C1 witness: a recv delivered the only payload pending on its tag, a value
\* that none of the caller's arrays held any more when recv was called (the
\* array it was sent from had been overwritten).
C1_Witness ==
    /\ last.op = "recv" /\ Succeeded
    /\ Len(pre.send_buff[last.tag]) = 1
    /\ \A c \in Bufs : pre.heap[c] # last.orig
    /\ heap[last.b] = last.orig

\* C2: recv is FIFO per tag: every successful recv on a tag delivers the
\* payload of the oldest successful send on that tag that no successful recv
\* has delivered yet (the k-th successful recv gets the k-th successful send).
C2_FifoPerTag ==
    (last.op = "recv" /\ Succeeded) => last.orig = last.want

\* C3: a recv(buf, source=0, tag) on a tag with nothing pending (never sent
\* to, or drained) fails with EmptyQueue and leaves buf unchanged.
C3_EmptyQueue ==
    (last.op = "recv" /\ last.peer = 0 /\ NoPending(pre.send_buff, last.tag))
        => (Kind(last.err) = "EmptyQueue" /\ heap = pre.heap)

\* C4: send with dest # 0 and recv with source # 0 fail with ProtocolError
\* and leave the per-tag queues and the caller's arrays unchanged.
C4_WrongPeer ==
    (last.op \in {"send", "recv"} /\ last.peer # 0)
        => (Kind(last.err) = "ProtocolError" /\ NothingChanged)

\* C4 witness: a recv with source # 0 on a tag that has a payload pending.
C4_Witness ==
    /\ last.op = "recv" /\ last.peer # 0
    /\ ~NoPending(send_buff, last.tag)
    /\ Kind(last.err) = "ProtocolError"

\* C5: bcast(data, root) returns the caller's data, content unchanged, when
\* root = 0 and fails with ProtocolError otherwise; it never changes the
\* per-tag queues.
C5_Bcast ==
    last.op = "bcast"
        => /\ NothingChanged
           /\ IF last.peer = 0
              THEN Succeeded /\ last.ret = last.a
              ELSE Kind(last.err) = "ProtocolError"

\* C5 witness: a bcast with root 0 returned while payloads were pending.
C5_Witness ==
    /\ last.op = "bcast" /\ last.peer = 0 /\ last.ret = last.a
    /\ SomePending(send_buff)

ShapeChecked == {"scatter", "gather", "allgather", "alltoall"}

ShapesDiffer == Len(pre.heap[last.a]) # Len(pre.heap[last.b])

\* C6 as claimed: scatter, gather, allgather and alltoall fail with
\* ShapeMismatch whenever the shapes differ, recv_data unchanged.
C6_ShapeMismatch_AsClaimed ==
    (last.op \in ShapeChecked /\ ShapesDiffer)
        => (Kind(last.err) = "ShapeMismatch" /\ heap = pre.heap)

\* C6 amended: scatter and gather called with root = 0, and allgather and
\* alltoall, fail with ShapeMismatch whenever the shapes differ, and the
\* failing call leaves recv_data unchanged.
C6_ShapeMismatch ==
    (/\ last.op \in ShapeChecked
     /\ ShapesDiffer
     /\ last.op \in {"scatter", "gather"} => last.peer = 0)
        => (Kind(last.err) = "ShapeMismatch" /\ heap = pre.heap)

\* C6 witness: a scatter with root 0 from a longer array into a shorter one.
C6_Witness ==
    /\ last.op = "scatter" /\ last.peer = 0
    /\ Len(heap[last.a]) > Len(heap[last.b])
    /\ Kind(last.err) = "ShapeMismatch"

Reductions == {"reduce", "allreduce"}

BadOp == last.rop \notin {"sum", "max", "min"}

\* C7 as claimed: reduce and allreduce fail with InvalidOperation for any
\* operator outside {sum, max, min}, recv_data unchanged.
C7_InvalidOperation_AsClaimed ==
    (last.op \in Reductions /\ BadOp)
        => (Kind(last.err) = "InvalidOperation" /\ heap = pre.heap)

\* C7 amended: reduce and allreduce called with an operator outside
\* {sum, max, min} always fail and leave recv_data unchanged; the failure is
\* InvalidOperation when the checks made before it pass (root = 0 for
\* reduce, equal shapes).
C7_InvalidOperation ==
    (last.op \in Reductions /\ BadOp)
        => /\ Failed
           /\ heap = pre.heap
           /\ ((last.op = "reduce" => last.peer = 0) /\ ~ShapesDiffer)
                 => Kind(last.err) = "InvalidOperation"

\* C7 witness: an allreduce of two distinct equal-shaped arrays of different
\* content with an unknown operator.
C7_Witness ==
    /\ last.op = "allreduce" /\ BadOp
    /\ last.a # last.b /\ heap[last.a] # heap[last.b] /\ ~ShapesDiffer
    /\ Kind(last.err) = "InvalidOperation"

\* C8: every successful scatter, gather, allgather, alltoall, reduce and
\* allreduce leaves recv_data equal to send_data and leaves send_data and
\* the per-tag queues unchanged.
C8_CopyThrough ==
    (last.op \in ShapeChecked \cup Reductions /\ Succeeded)
        => /\ heap[last.b] = pre.heap[last.a]
           /\ heap[last.a] = pre.heap[last.a]
           /\ send_buff = pre.send_buff

\* C8 witness: a reduce succeeded on two distinct arrays that differed, with
\* payloads pending.
C8_Witness ==
    /\ last.op = "reduce" /\ Succeeded
    /\ last.a # last.b /\ pre.heap[last.a] # pre.heap[last.b]
    /\ SomePending(send_buff)

\* C9: split(color=0, key) succeeds for every key and returns a communicator
\* (an OBARE, whose rank() is 0); split with color # 0 fails with
\* ProtocolError.
C9_Split ==
    last.op = "split"
        => IF last.peer = 0
           THEN Succeeded /\ last.comm.made /\ rank = 0
           ELSE Kind(last.err) = "ProtocolError"

\* C10: dup, and split with color 0, return a new communicator whose per-tag
\* queue map is empty, and leave the original's pending queues unchanged.
C10_FreshCommunicator ==
    (last.op = "dup" \/ (last.op = "split" /\ last.peer = 0))
        => /\ Succeeded
           /\ last.comm.made
           /\ last.comm.send_buff = << >>
           /\ send_buff = pre.send_buff

\* C14: a call that fails leaves no partial effect: the caller's arrays and
\* the per-tag queues are as the call found them; in particular a recv that
\* fails leaves the tag's queue as it was.
C14_NoPartialSuccess ==
    Failed => NothingChanged

\* ------------------------------------------------------------------------
\* Properties of the transport-backed communicators
\* ------------------------------------------------------------------------

\* The call that has just ended is backend.op.
Called(backend, op) == run.backend = backend /\ run.op = op

OnDevice(b) == b # "None" /\ Space(b) = "Device"

OnHost(b) == b # "None" /\ Space(b) = "Host"

\* A staging array the caller may pass for data: none, or a host array of
\* data's shape.
GoodStaging(b, data) ==
    b = "None" \/ (OnHost(b) /\ ArrayLen(b) = ArrayLen(data))

\* The entries of participant p's trace that are of one of the kinds evs.
Traced(p, evs) ==
    {i \in DOMAIN run.out[p].trace : run.out[p].trace[i].ev \in evs}

\* C11: an ODAMPI bcast of a device array over a transport that cannot
\* reach device memory, with or without a caller-supplied staging array,
\* ends without an exception on every participant, leaves every
\* participant's data holding the value the root's data had, and returns
\* data.
C11_DeviceBcast ==
    (/\ Called("ODAMPI", "bcast")
     /\ OnDevice(run.args.a)
     /\ ~flags.mpi_cuda_aware
     /\ GoodStaging(run.args.sa, run.args.a))
        => \A p \in Procs :
              /\ run.out[p].err = Ok
              /\ mem[p][run.args.a] = run.premem[run.args.root][run.args.a]
              /\ run.out[p].ret = run.args.a

\* The (staging array, data) pairs participant p's handler acquires staging
\* for, when the data is on the device.
Acquired(p) ==
    LET a == run.args
        all == IF Called("ODAMPI", "sendrecv")
               THEN (IF p = a.root THEN {<<a.sa, a.a>>} ELSE {<<a.sb, a.b>>})
               ELSE IF Called("ODAMPI", "bcast") THEN {<<a.sa, a.a>>}
               ELSE IF Called("ODAMPI", "scatter") /\ OnDevice(a.a)
               THEN {<<a.sa, a.a>>, <<a.sb, a.b>>}
               ELSE {}
    IN {sd \in all : OnDevice(sd[2])}

\* C12: a participant whose handler is given, for device data, a staging
\* array that lives on the device, or a host array of another shape than
\* the data, raises an exception (the one for an invalid staging buffer),
\* and has made no copy and no transport call when it does.
C12_RejectsStaging ==
    \A p \in Procs :
        (/\ ~flags.mpi_cuda_aware
         /\ \E sd \in Acquired(p) :
               sd[1] # "None" /\ ~GoodStaging(sd[1], sd[2]))
            => /\ run.out[p].err \notin {Ok, ErrHang, ErrTransport}
               /\ Traced(p, {"d2h", "h2d", "transport"}) = {}

\* C13: reduce and allreduce of OMPI, ODAMPI and pyompi's MPI called with
\* an operator other than sum, max and min raise an exception (the one
\* for an invalid operation) on every participant without having called
\* the transport; none returns normally.
C13_OnlySumMaxMin ==
    (/\ run.op \in {"reduce", "allreduce"}
     /\ run.args.rop \notin {"sum", "max", "min"})
        => \A p \in Procs :
              /\ run.out[p].err # Ok
              /\ Traced(p, {"transport"}) = {}

\* The element-wise sum over the participants of what array b held when
\* the call was made.
SumOf(b) ==
    [i \in 1..ArrayLen(b) |-> run.premem[0][b][i] + run.premem[1][b][i]]

\* C15: pyompi's MPI.allreduce with op "sum" on device arrays, over a
\* transport that cannot reach device memory, returns normally on every
\* participant and leaves the caller's recvbuf holding the sum of the
\* participants' sendbuf.
C15_AllreduceWritesBack ==
    (/\ Called("MPI", "allreduce")
     /\ run.args.rop = "sum"
     /\ OnDevice(run.args.a) /\ OnDevice(run.args.b)
     /\ ~flags.mpi_cuda_aware)
        => \A p \in Procs :
              /\ run.out[p].err = Ok
              /\ mem[p][run.args.b] = SumOf(run.args.a)

\* C16: an ODAMPI scatter of device arrays over a transport that cannot
\* reach device memory, with or without caller-supplied staging arrays:
\* the root copies send_data to the host before the transport is called,
\* the transport is called on host arrays only, every participant copies
\* to the device after the transport returned, and recv_data ends up
\* holding the participant's part of the root's send_data.
C16_DeviceScatter ==
    (/\ Called("ODAMPI", "scatter")
     /\ OnDevice(run.args.a) /\ OnDevice(run.args.b)
     /\ ~flags.mpi_cuda_aware
     /\ GoodStaging(run.args.sa, run.args.a)
     /\ GoodStaging(run.args.sb, run.args.b))
        => \A p \in Procs :
              LET tr == run.out[p].trace IN
              /\ run.out[p].err = Ok
              /\ \A i \in Traced(p, {"transport"}) :
                    /\ OnHost(tr[i].x) /\ OnHost(tr[i].y)
                    /\ \A j \in Traced(p, {"d2h"}) : j < i
                    /\ \A j \in Traced(p, {"h2d"}) : i < j
              /\ Traced(p, {"h2d"}) # {}
              /\ mem[p][run.args.b]
                    = Chunk(run.premem[run.args.root][run.args.a], p)

\* The array participant p receives the output of the call in ("None":
\* it receives none).
OutputOf(p) ==
    IF run.op = "bcast" THEN run.args.a
    ELSE IF run.op = "scatter" THEN run.args.b
    ELSE IF run.op = "reduce" /\ p = run.args.root THEN run.args.b
    ELSE "None"

\* C17: in an ODAMPI bcast (given a host array of data's shape as
\* comm_buffer), scatter or reduce of device arrays over a transport that
\* cannot reach device memory, a participant other than the root makes no
\* device-to-host copy, and every participant that receives output and
\* returns normally has copied it from the host into its output array.
C17_RootOnlyStaging ==
    (/\ run.backend = "ODAMPI"
     /\ run.op \in {"bcast", "scatter", "reduce"}
     /\ OnDevice(run.args.a)
     /\ run.op = "bcast" \/ OnDevice(run.args.b)
     /\ run.op = "bcast" => run.args.sa # "None"
     /\ run.op = "reduce" => run.args.rop \in {"sum", "max", "min"}
     /\ ~flags.mpi_cuda_aware
     /\ GoodStaging(run.args.sa, run.args.a)
     /\ run.args.sb = "None" \/ GoodStaging(run.args.sb, run.args.b))
        => \A p \in Procs :
              /\ p # run.args.root => Traced(p, {"d2h"}) = {}
              /\ (OutputOf(p) # "None" /\ run.out[p].err = Ok)
                    => \E i \in Traced(p, {"h2d"}) :
                          run.out[p].trace[i].y = OutputOf(p)

\* C18: in a call of ODAMPI or of pyompi's MPI.allreduce without caller-
\* supplied staging arrays, the transport's device-awareness flag decides
\* about staging: when it is set, no participant allocates or copies
\* anything and the transport is called on the caller's arrays; when it
\* is not set, the transport is never called on a device array.
C18_FlagDecidesStaging ==
    (/\ run.backend \in {"ODAMPI", "MPI"}
     /\ run.args.sa = "None" /\ run.args.sb = "None")
        => \A p \in Procs :
              LET tr == run.out[p].trace IN
              IF flags.mpi_cuda_aware
              THEN /\ Traced(p, {"alloc", "d2h", "h2d"}) = {}
                   /\ \A i \in Traced(p, {"transport"}) :
                         {tr[i].x, tr[i].y} \subseteq
                             {run.args.a, run.args.b, "None"}
              ELSE \A i \in Traced(p, {"transport"}) :
                      ~OnDevice(tr[i].x) /\ ~OnDevice(tr[i].y)

\* C19: an ODAMPI call whose arrays all live on the host, made without
\* staging arrays, is the OMPI call: every participant makes the same
\* transport call and nothing else, the same exception or return value
\* comes back (for bcast: data), and the arrays end up the same.
C19_HostPathIsOMPI ==
    (/\ run.backend = "ODAMPI"
     /\ ~OnDevice(run.args.a) /\ ~OnDevice(run.args.b)
     /\ run.args.sa = "None" /\ run.args.sb = "None")
        => /\ run.out = run.ompi
           /\ mem = run.ompimem
           /\ \A p \in Procs :
                 Traced(p, {"alloc", "d2h", "h2d"}) = {}

\* C20: whatever the availability flags are, importing the package and
\* constructing the device-aware communicator raises nothing, and when
\* cupy is not available every array is classified as a host array.
C20_LoadsUnderEveryFlag ==
    run.op = "load"
        => /\ run.loaded = Ok
           /\ ~flags.cupy_avail
                 => \A b \in Arrays \cup {"None"} :
                       get_module_from_array(flags, b) = "numpy"

====
